---- MODULE Spec2Model ----
(***************************************************************************)
(* FixedVecDeque (src/src/lib.rs): a double-ended queue over a fixed array *)
(* of Capacity slots, a write cursor `ptr` (the head) and a length `len`.  *)
(*                                                                         *)
(* The methods are modelled as operators from a deque value                *)
(* [ptr, len, data] to an outcome [ptr, len, data, ret, fail]:             *)
(*   ret  - the physical offset of the slot the returned reference points  *)
(*          to, or None for Option::None and for methods returning ()      *)
(*   fail - "none"  the call returned                                      *)
(*          "panic" the call panics in every build (assert!, % by zero)    *)
(*          "debug" a check of debug builds fails (arithmetic overflow,    *)
(*                  debug_assert!); a release build goes on with the       *)
(*                  wrapped value into an out-of-bounds access             *)
(* The actions apply one method to the state.                              *)
(***************************************************************************)
EXTENDS Integers, Sequences, FiniteSets, TLC

\* ------------------------------------------------------------- bounds
\* Largest capacity of the free-running specification Spec.
MaxCap == 4
\* Element values are 0..MaxVal; 0 is the element type's Default.
MaxVal == 1
\* The scripted specification TestSpec pushes up to Capacity + ExtraPush times.
ExtraPush == 2
\* Capacities of the scripted specification TestSpec.
TestSizes == {0, 1, 2, 3, 5, 8, 16}

\* Largest capacity, and most elements of a right-hand side, of PureSpec.
PureCap == 3

\* T::Item::default() of the integer element types the tests use.
Default == 0
\* Option::None, and the result of methods that return ().
None == -1

VARIABLES
    cap,      \* T::size(): fixed at construction
    ptr,      \* FixedVecDeque::ptr
    len,      \* FixedVecDeque::len
    data,     \* FixedVecDeque::data: physical offset -> element
    status,   \* "ok", or how the program ended: "panic", "ub"
    op,       \* the method the last step called
    ret,      \* what it returned: a physical offset, or None
    pushed,   \* TestSpec: the values assigned by the push calls so far
    popped,   \* TestSpec: the values the pop calls returned so far
    mode,     \* TestSpec: which end the script pushes to
    phase,    \* TestSpec: "fill", "drain", "removed"; Spec: "free"
    other     \* a second container: the right-hand side of ==, a clone, the
              \* reference deque, or the deque as it was before a pair of
              \* calls; NoOther where there is none

vars == <<cap, ptr, len, data, status, op, ret, pushed, popped, mode, phase, other>>
script == <<pushed, popped, mode, phase, other>>

NoOther == [kind |-> "none"]

Values == 0..MaxVal
Slots == 0..(cap - 1)

\* ------------------------------------------------------ deque values
Self == [ptr |-> ptr, len |-> len, data |-> data]

Deque(p, l, d) == [ptr |-> p, len |-> l, data |-> d]

Returns(p, l, d, r) == [ptr |-> p, len |-> l, data |-> d, ret |-> r, fail |-> "none"]

Fails(s, kind) == [ptr |-> s.ptr, len |-> s.len, data |-> s.data, ret |-> None, fail |-> kind]

After(r) == Deque(r.ptr, r.len, r.data)

\* ------------------------------------------------- Array::wrap_add/sub
wrap_add(idx, addend) == (idx + addend) % cap

wrap_sub(idx, subtrahend) ==
    IF subtrahend > idx THEN cap - (subtrahend - idx) ELSE idx - subtrahend

\* usize: a difference below zero overflows.
wrap_sub_ok(idx, subtrahend) == subtrahend > idx => subtrahend - idx <= cap

is_empty(s) == s.len = 0

is_full(s) == s.len = cap

tail(s) == wrap_sub(s.ptr, s.len)

\* Mutant of ptr_index: the offset is counted from the head.
ptr_index_from_head(s, i) == wrap_add(s.ptr, i)

ptr_index(s, i) == wrap_add(tail(s), i)

is_contiguous(s) == s.len # cap /\ tail(s) <= s.ptr

\* ------------------------------------------------------------ readers
get(s, index) == IF index < s.len THEN s.data[ptr_index(s, index)] ELSE None

front(s) == IF is_empty(s) THEN None ELSE s.data[tail(s)]

back(s) == IF is_empty(s) THEN None ELSE s.data[wrap_sub(s.ptr, 1)]

\* The logical sequence get(0), ..., get(len - 1).
Logical(s) == [i \in 1..s.len |-> get(s, i - 1)]

\* A mutable reference is the slot it points to.
get_mut(s, index) ==
    IF index < s.len
      THEN Returns(s.ptr, s.len, s.data, ptr_index(s, index))
      ELSE Returns(s.ptr, s.len, s.data, None)

\* Index::index: get(index).expect("Out of bounds access")
Index_index(s, index) ==
    IF get(s, index) = None
      THEN Fails(s, "panic")
      ELSE Returns(s.ptr, s.len, s.data, ptr_index(s, index))

\* Mutant of index_mut: the index is checked against the capacity.
index_mut_capacity_bound(s, index) ==
    IF index < cap
      THEN Returns(s.ptr, s.len, s.data, ptr_index(s, index))
      ELSE Fails(s, "panic")

\* IndexMut::index_mut: get_mut(index).expect("Out of bounds access")
index_mut(s, index) ==
    LET r == get_mut(s, index)
    IN  IF r.ret = None THEN Fails(s, "panic") ELSE r

\* ------------------------------------------------------------ iterators
\* Iter and IterMut: the head and the number of elements still to yield.
iter(s) == [ptr |-> s.ptr, len |-> s.len]

iter_mut(s) == [ptr |-> s.ptr, len |-> s.len]

\* Mutant of Iter_next: the length is decremented before the offset is taken.
Iter_next_decrement_first(it) ==
    IF it.len = 0
      THEN [it |-> it, item |-> None]
      ELSE [it |-> [ptr |-> it.ptr, len |-> it.len - 1],
            item |-> wrap_sub(it.ptr, it.len - 1)]

\* Iterator::next: the iterator after the call and the slot yielded.
Iter_next(it) ==
    IF it.len = 0
      THEN [it |-> it, item |-> None]
      ELSE [it |-> [ptr |-> it.ptr, len |-> it.len - 1],
            item |-> wrap_sub(it.ptr, it.len)]

\* The slots next() yields until it returns None.
RECURSIVE collect(_)
collect(it) ==
    IF Iter_next(it).item = None
      THEN <<>>
      ELSE <<Iter_next(it).item>> \o collect(Iter_next(it).it)

\* The iterator once next() has returned None.
RECURSIVE exhaust(_)
exhaust(it) ==
    IF Iter_next(it).item = None THEN Iter_next(it).it ELSE exhaust(Iter_next(it).it)

\* ------------------------------------------------------------- slices
\* A slice of the storage is the sequence of the offsets it covers.
buffer_as_slice == [k \in 1..cap |-> k - 1]

Slices(first, second) == [first |-> first, second |-> second, fail |-> "none"]

NoSlices == [first |-> <<>>, second |-> <<>>, fail |-> "panic"]

\* [T]::split_at panics when i is beyond the slice.
split_ok(buf, i) == i <= Len(buf)

split_at(buf, i) == <<SubSeq(buf, 1, i), SubSeq(buf, i + 1, Len(buf))>>

\* &buf[from..to] panics when the range is reversed or beyond the slice.
slice_ok(buf, from, to) == from <= to /\ to <= Len(buf)

slice(buf, from, to) == SubSeq(buf, from + 1, to)

\* Mutant of ring_slices: the two parts of a wrapped range are handed out
\* in storage order.
ring_slices_storage_order(buf, head, tl) ==
    LET contiguous == tl <= head
    IN  IF contiguous
          THEN IF slice_ok(buf, tl, head)
                 THEN Slices(slice(buf, tl, head), split_at(buf, 0)[1])
                 ELSE NoSlices
          ELSE IF split_ok(buf, tl) /\ split_ok(split_at(buf, tl)[1], head)
                 THEN LET mid == split_at(buf, tl)[1]
                          right == split_at(buf, tl)[2]
                          left == split_at(mid, head)[1]
                      IN  Slices(left, right)
                 ELSE NoSlices

ring_slices(buf, head, tl) ==
    LET contiguous == tl <= head
    IN  IF contiguous
          THEN IF slice_ok(buf, tl, head)
                 THEN Slices(slice(buf, tl, head), split_at(buf, 0)[1])
                 ELSE NoSlices
          ELSE IF split_ok(buf, tl) /\ split_ok(split_at(buf, tl)[1], head)
                 THEN LET mid == split_at(buf, tl)[1]
                          right == split_at(buf, tl)[2]
                          left == split_at(mid, head)[1]
                      IN  Slices(right, left)
                 ELSE NoSlices

as_slices(s) ==
    LET buf == buffer_as_slice
    IN  IF s.len = cap
          THEN IF split_ok(buf, s.ptr)
                 THEN Slices(split_at(buf, s.ptr)[2], split_at(buf, s.ptr)[1])
                 ELSE NoSlices
          ELSE ring_slices(buf, s.ptr, wrap_sub(s.ptr, s.len))

as_mut_slices(s) ==
    LET buf == buffer_as_slice
    IN  IF is_full(s)
          THEN IF split_ok(buf, s.ptr)
                 THEN Slices(split_at(buf, s.ptr)[2], split_at(buf, s.ptr)[1])
                 ELSE NoSlices
          ELSE ring_slices(buf, s.ptr, tail(s))

\* ------------------------------------------------------- push and pop
\* Mutant of push_front: the new front is taken at the length before the push.
push_front_stale(s) ==
    IF s.len = cap
      THEN IF ~wrap_sub_ok(s.ptr, 1)
             THEN Fails(s, "debug")
             ELSE LET p == wrap_sub(s.ptr, 1) IN Returns(p, s.len, s.data, p)
      ELSE Returns(s.ptr, s.len + 1, s.data, wrap_sub(s.ptr, s.len))

\* Mutant of push_front: on a full deque the head stays where it is.
push_front_full_keep_head(s) ==
    IF s.len = cap
      THEN IF ~wrap_sub_ok(s.ptr, 1)
             THEN Fails(s, "debug")
             ELSE Returns(s.ptr, s.len, s.data, wrap_sub(s.ptr, 1))
      ELSE LET l == s.len + 1 IN Returns(s.ptr, l, s.data, wrap_sub(s.ptr, l))

push_front(s) ==
    IF s.len = cap
      THEN IF ~wrap_sub_ok(s.ptr, 1)
             THEN Fails(s, "debug")
             ELSE LET p == wrap_sub(s.ptr, 1) IN Returns(p, s.len, s.data, p)
      ELSE LET l == s.len + 1 IN Returns(s.ptr, l, s.data, wrap_sub(s.ptr, l))

pop_front(s) ==
    IF is_empty(s)
      THEN Returns(s.ptr, s.len, s.data, None)
      ELSE Returns(s.ptr, s.len - 1, s.data, tail(s))

\* Mutant of push_back: on a full deque the head stays where it is.
push_back_full_in_place(s) ==
    IF cap = 0
      THEN Fails(s, "panic")
      ELSE Returns(IF s.len < cap THEN wrap_add(s.ptr, 1) ELSE s.ptr,
                   IF s.len < cap THEN s.len + 1 ELSE s.len,
                   s.data, s.ptr)

\* Mutant of push_back: the slot handed out is the one at the advanced head.
push_back_late(s) ==
    IF cap = 0
      THEN Fails(s, "panic")
      ELSE Returns(wrap_add(s.ptr, 1), IF s.len < cap THEN s.len + 1 ELSE s.len,
                   s.data, wrap_add(s.ptr, 1))

push_back(s) ==
    IF cap = 0
      THEN Fails(s, "panic")
      ELSE Returns(wrap_add(s.ptr, 1), IF s.len < cap THEN s.len + 1 ELSE s.len,
                   s.data, s.ptr)

\* Mutant of pop_back: the length is not decremented.
pop_back_keep_len(s) ==
    IF is_empty(s)
      THEN Returns(s.ptr, s.len, s.data, None)
      ELSE LET p == wrap_sub(s.ptr, 1) IN Returns(p, s.len, s.data, p)

\* Mutant of pop_back: the slot handed out is the one at the head before.
pop_back_at_head(s) ==
    IF is_empty(s)
      THEN Returns(s.ptr, s.len, s.data, None)
      ELSE Returns(wrap_sub(s.ptr, 1), s.len - 1, s.data, s.ptr)

pop_back(s) ==
    IF is_empty(s)
      THEN Returns(s.ptr, s.len, s.data, None)
      ELSE LET p == wrap_sub(s.ptr, 1) IN Returns(p, s.len - 1, s.data, p)

\* `*r = value` through the reference a call returned.
assign(r, value) ==
    IF r.fail # "none" \/ r.ret = None
      THEN r
      ELSE [r EXCEPT !.data = [r.data EXCEPT ![r.ret] = value]]

\* Mutant of truncate: the length is cut and the head stays.
truncate_keep_head(s, n) ==
    IF n < s.len
      THEN Returns(s.ptr, n, s.data, None)
      ELSE Returns(s.ptr, s.len, s.data, None)

\* Mutant of truncate: the head is moved back without wrapping.
truncate_no_wrap(s, n) ==
    IF n < s.len
      THEN Returns(s.ptr - (s.len - n), n, s.data, None)
      ELSE Returns(s.ptr, s.len, s.data, None)

truncate(s, n) ==
    IF n < s.len
      THEN Returns(wrap_sub(s.ptr, s.len - n), n, s.data, None)
      ELSE Returns(s.ptr, s.len, s.data, None)

\* Mutant of clear: the slots are reset to the default value.
clear_reset(s) == Returns(0, 0, [k \in DOMAIN s.data |-> Default], None)

clear(s) == Returns(0, 0, s.data, None)

\* Mutant of swap: the second slot is copied over the first and keeps its own.
swap_copy_one_way(s, i, j) ==
    IF ~(i < cap) \/ ~(j < cap)
      THEN Fails(s, "panic")
      ELSE LET ri == ptr_index(s, i)
               rj == ptr_index(s, j)
           IN Returns(s.ptr, s.len, [s.data EXCEPT ![ri] = s.data[rj]], None)

swap(s, i, j) ==
    IF ~(i < cap) \/ ~(j < cap)
      THEN Fails(s, "panic")
      ELSE LET ri == ptr_index(s, i)
               rj == ptr_index(s, j)
           IN Returns(s.ptr, s.len,
                      [s.data EXCEPT ![ri] = s.data[rj], ![rj] = s.data[ri]], None)

\* Mutant of swap_remove_back: the back is popped without the swap.
swap_remove_back_no_swap(s, index) ==
    IF index < s.len THEN pop_back(s) ELSE Returns(s.ptr, s.len, s.data, None)

swap_remove_back(s, index) ==
    IF s.len > 0 /\ index < s.len - 1
      THEN LET w == swap(s, index, s.len - 1)
           IN IF w.fail # "none" THEN w ELSE pop_back(After(w))
      ELSE IF index >= s.len
             THEN Returns(s.ptr, s.len, s.data, None)
             ELSE pop_back(s)

\* Mutant of swap_remove_front: the front is popped without the swap.
swap_remove_front_no_swap(s, index) ==
    IF index < s.len THEN pop_front(s) ELSE Returns(s.ptr, s.len, s.data, None)

swap_remove_front(s, index) ==
    IF s.len > 0 /\ index < s.len /\ index # 0
      THEN LET w == swap(s, index, 0)
           IN IF w.fail # "none" THEN w ELSE pop_front(After(w))
      ELSE IF index >= s.len
             THEN Returns(s.ptr, s.len, s.data, None)
             ELSE pop_front(s)

\* ------------------------------------------------------------- remove
\* Mutant of copy: source and destination exchanged.
copy_swapped(d, dst, src, n) ==
    [k \in DOMAIN d |-> IF src <= k /\ k < src + n THEN d[dst + (k - src)] ELSE d[k]]

\* ptr::copy of n slots from src to dst (the ranges may overlap).
copy(d, dst, src, n) ==
    [k \in DOMAIN d |-> IF dst <= k /\ k < dst + n THEN d[src + (k - dst)] ELSE d[k]]

\* The debug assertions of copy, and the usize length not below zero.
copy_ok(c) == c.n >= 0 /\ c.dst + c.n <= cap /\ c.src + c.n <= cap

Cp(dst, src, n) == [dst |-> dst, src |-> src, n |-> n]

RECURSIVE copy_all(_, _)
copy_all(d, cs) ==
    IF cs = <<>> THEN d
    ELSE copy_all(copy(d, Head(cs).dst, Head(cs).src, Head(cs).n), Tail(cs))

\* Mutant of remove_plan: the fifth branch moves the head section without
\* asking whether there is one.
remove_plan_unguarded(s, index) ==
    LET idx == ptr_index(s, index)
        head == s.ptr
        tl == tail(s)
        contiguous == is_contiguous(s)
        closer_to_tail == index <= s.len - index
        in_tail_section == idx >= tl
    IN  IF contiguous /\ closer_to_tail
          THEN [copies |-> <<Cp(tl + 1, tl, index)>>, ptr |-> head, idx |-> tl]
        ELSE IF contiguous
          THEN [copies |-> <<Cp(idx, idx + 1, head - idx - 1)>>,
                ptr |-> head - 1, idx |-> head]
        ELSE IF closer_to_tail /\ in_tail_section
          THEN [copies |-> <<Cp(tl + 1, tl, index)>>, ptr |-> head, idx |-> tl]
        ELSE IF ~closer_to_tail /\ ~in_tail_section
          THEN [copies |-> <<Cp(idx, idx + 1, head - idx - 1)>>,
                ptr |-> head - 1, idx |-> head]
        ELSE IF ~closer_to_tail
          THEN [copies |-> <<Cp(idx, idx + 1, cap - idx - 1)>>
                            \o <<Cp(cap - 1, 0, 1), Cp(0, 1, head - 1)>>,
                ptr |-> wrap_sub(head, 1), idx |-> head]
        ELSE [copies |-> <<Cp(1, 0, idx), Cp(0, cap - 1, 1),
                           Cp(tl + 1, tl, cap - tl - 1)>>,
              ptr |-> head, idx |-> tl]

\* Mutant of remove_plan: the last copy of the sixth branch takes in the last
\* slot of the storage as well.
remove_plan_tail_overrun(s, index) ==
    LET idx == ptr_index(s, index)
        head == s.ptr
        tl == tail(s)
        contiguous == is_contiguous(s)
        closer_to_tail == index <= s.len - index
        in_tail_section == idx >= tl
    IN  IF contiguous /\ closer_to_tail
          THEN [copies |-> <<Cp(tl + 1, tl, index)>>, ptr |-> head, idx |-> tl]
        ELSE IF contiguous
          THEN [copies |-> <<Cp(idx, idx + 1, head - idx - 1)>>,
                ptr |-> head - 1, idx |-> head]
        ELSE IF closer_to_tail /\ in_tail_section
          THEN [copies |-> <<Cp(tl + 1, tl, index)>>, ptr |-> head, idx |-> tl]
        ELSE IF ~closer_to_tail /\ ~in_tail_section
          THEN [copies |-> <<Cp(idx, idx + 1, head - idx - 1)>>,
                ptr |-> head - 1, idx |-> head]
        ELSE IF ~closer_to_tail
          THEN [copies |-> <<Cp(idx, idx + 1, cap - idx - 1)>>
                            \o (IF head # 0
                                  THEN <<Cp(cap - 1, 0, 1), Cp(0, 1, head - 1)>>
                                  ELSE <<>>),
                ptr |-> wrap_sub(head, 1), idx |-> head]
        ELSE [copies |-> <<Cp(1, 0, idx), Cp(0, cap - 1, 1),
                           Cp(tl + 1, tl, cap - tl)>>,
              ptr |-> head, idx |-> tl]

\* The branch remove takes: the block copies it issues, the head it leaves
\* and the offset the removed value is written to.
remove_plan(s, index) ==
    LET idx == ptr_index(s, index)
        head == s.ptr
        tl == tail(s)
        contiguous == is_contiguous(s)
        closer_to_tail == index <= s.len - index
        in_tail_section == idx >= tl
    IN  IF contiguous /\ closer_to_tail
          THEN [copies |-> <<Cp(tl + 1, tl, index)>>, ptr |-> head, idx |-> tl]
        ELSE IF contiguous
          THEN [copies |-> <<Cp(idx, idx + 1, head - idx - 1)>>,
                ptr |-> head - 1, idx |-> head]
        ELSE IF closer_to_tail /\ in_tail_section
          THEN [copies |-> <<Cp(tl + 1, tl, index)>>, ptr |-> head, idx |-> tl]
        ELSE IF ~closer_to_tail /\ ~in_tail_section
          THEN [copies |-> <<Cp(idx, idx + 1, head - idx - 1)>>,
                ptr |-> head - 1, idx |-> head]
        ELSE IF ~closer_to_tail
          THEN [copies |-> <<Cp(idx, idx + 1, cap - idx - 1)>>
                            \o (IF head # 0
                                  THEN <<Cp(cap - 1, 0, 1), Cp(0, 1, head - 1)>>
                                  ELSE <<>>),
                ptr |-> wrap_sub(head, 1), idx |-> head]
        ELSE [copies |-> <<Cp(1, 0, idx), Cp(0, cap - 1, 1),
                           Cp(tl + 1, tl, cap - tl - 1)>>,
              ptr |-> head, idx |-> tl]

remove_ok(plan) ==
    /\ \A k \in 1..Len(plan.copies) : copy_ok(plan.copies[k])
    /\ plan.ptr >= 0
    /\ plan.idx < cap

\* Mutant of remove: the head stays where it was in every branch.
remove_keep_head(s, index) ==
    IF cap = 0 \/ index >= s.len
      THEN Returns(s.ptr, s.len, s.data, None)
      ELSE LET tmp == s.data[ptr_index(s, index)]
               plan == remove_plan(s, index)
           IN  IF ~remove_ok(plan)
                 THEN Fails(s, "debug")
                 ELSE Returns(s.ptr, s.len - 1,
                              [copy_all(s.data, plan.copies) EXCEPT ![plan.idx] = tmp],
                              plan.idx)

\* Mutant of remove: an index equal to len is let through.
remove_up_to_len(s, index) ==
    IF cap = 0 \/ index > s.len
      THEN Returns(s.ptr, s.len, s.data, None)
      ELSE LET tmp == s.data[ptr_index(s, index)]
               plan == remove_plan(s, index)
           IN IF ~remove_ok(plan)
                THEN Fails(s, "debug")
                ELSE Returns(plan.ptr, s.len - 1,
                             [copy_all(s.data, plan.copies) EXCEPT ![plan.idx] = tmp],
                             plan.idx)

remove(s, index) ==
    IF cap = 0 \/ index >= s.len
      THEN Returns(s.ptr, s.len, s.data, None)
      ELSE LET tmp == s.data[ptr_index(s, index)]
               plan == remove_plan(s, index)
           IN  IF ~remove_ok(plan)
                 THEN Fails(s, "debug")
                 ELSE Returns(plan.ptr, s.len - 1,
                              [copy_all(s.data, plan.copies) EXCEPT ![plan.idx] = tmp],
                              plan.idx)

\* ------------------------------------------------- retain, extend, resize
\* The loop of retain from index i on, with del elements deleted so far;
\* f maps a value to whether it is kept.
RECURSIVE retain_from(_, _, _, _)
retain_from(s, f, i, del) ==
    IF i >= s.len
      THEN IF del > 0 THEN truncate(s, s.len - del)
                      ELSE Returns(s.ptr, s.len, s.data, None)
      ELSE IF ~f[s.data[ptr_index(s, i)]]
             THEN retain_from(s, f, i + 1, del + 1)
             ELSE IF del > 0
                    THEN LET w == swap(s, i - del, i)
                         IN IF w.fail # "none" THEN w
                            ELSE retain_from(After(w), f, i + 1, del)
                    ELSE retain_from(s, f, i + 1, del)

\* The values the predicate is called with, in the order of the calls.
RECURSIVE retain_calls(_, _, _, _)
retain_calls(s, f, i, del) ==
    IF i >= s.len
      THEN <<>>
      ELSE LET v == s.data[ptr_index(s, i)]
           IN <<v>> \o (IF ~f[v]
                          THEN retain_calls(s, f, i + 1, del + 1)
                          ELSE IF del > 0
                                 THEN retain_calls(After(swap(s, i - del, i)), f, i + 1, del)
                                 ELSE retain_calls(s, f, i + 1, del))

\* Mutant of retain: the elements failing the predicate are the ones kept.
retain_inverted(s, f) == retain_from(s, [v \in Values |-> ~f[v]], 0, 0)

retain(s, f) == retain_from(s, f, 0, 0)

RECURSIVE extend(_, _)
extend(s, elts) ==
    IF elts = <<>>
      THEN Returns(s.ptr, s.len, s.data, None)
      ELSE LET r == assign(push_back(s), Head(elts))
           IN IF r.fail # "none" THEN r ELSE extend(After(r), Tail(elts))

\* Mutant of resize: a new length equal to the capacity is let through.
resize_up_to_capacity(s, new_len, value) ==
    IF ~(new_len <= cap)
      THEN Fails(s, "panic")
      ELSE IF new_len > s.len
             THEN extend(s, [k \in 1..(new_len - s.len) |-> value])
             ELSE truncate(s, new_len)

\* Clone::clone: ptr, len and all T::size() slots of the storage are copied
\* bit by bit (ptr::copy_nonoverlapping), whatever the element type.
clone(s) == Deque(s.ptr, s.len, [k \in Slots |-> s.data[k]])

\* The slots whose item in the clone owns the same heap allocation as the
\* item it was copied from. The element type only has to implement Default:
\* with plain values (u32) nothing is shared; with elements that own heap
\* memory (Vec<u8>, String) the bit copy duplicates the owning pointer of
\* every element that has allocated, which a default element has not.
clone_shared(s) == {{}, {k \in Slots : s.data[k] # Default}}

\* The slots whose previous item extend drops: `*self.push_back() = elt`
\* replaces the item of every slot it visits.
extend_drops(s, elts) ==
    IF cap = 0 THEN {} ELSE {wrap_add(s.ptr, i - 1) : i \in 1..Len(elts)}

\* FixedVecDeque::new()
new == Deque(0, 0, [k \in Slots |-> Default])

from_iter(elts) == extend(new, elts)

resize(s, new_len, value) ==
    IF ~(new_len < cap)
      THEN Fails(s, "panic")
      ELSE IF new_len > s.len
             THEN extend(s, [k \in 1..(new_len - s.len) |-> value])
             ELSE truncate(s, new_len)

\* ---------------------------------------------------------- PartialEq
\* The elements a slice of the storage borrows.
slice_values(s, sl) == [k \in 1..Len(sl) |-> s.data[sl[k]]]

\* What == reads of a deque: len() and the two slices of as_slices().
Operand(s) ==
    LET a == as_slices(s)
    IN  [len |-> s.len, first |-> slice_values(s, a.first),
         second |-> slice_values(s, a.second)]

Verdict(val) == [val |-> val, fail |-> "none"]

NoVerdict(kind) == [val |-> FALSE, fail |-> kind]

\* Mutant of eq: the middle section is not compared.
eq_no_mid(s, o) ==
    IF s.len # o.len
      THEN Verdict(FALSE)
      ELSE LET sa == s.first  sb == s.second
               oa == o.first  ob == o.second
           IN  IF Len(sa) = Len(oa)
                 THEN Verdict(sa = oa /\ sb = ob)
                 ELSE IF Len(sa) < Len(oa)
                        THEN LET front_ == Len(sa)
                                 mid == Len(oa) - front_
                             IN  IF ~split_ok(oa, front_) \/ ~split_ok(sb, mid)
                                   THEN NoVerdict("panic")
                                   ELSE LET oa_front == split_at(oa, front_)[1]
                                            oa_mid == split_at(oa, front_)[2]
                                            sb_mid == split_at(sb, mid)[1]
                                            sb_back == split_at(sb, mid)[2]
                                        IN  IF \/ Len(sa) # Len(oa_front)
                                               \/ Len(sb_mid) # Len(oa_mid)
                                               \/ Len(sb_back) # Len(ob)
                                              THEN NoVerdict("debug")
                                              ELSE Verdict(sa = oa_front /\ sb_back = ob)
                        ELSE LET front_ == Len(oa)
                                 mid == Len(sa) - front_
                             IN  IF ~split_ok(sa, front_) \/ ~split_ok(ob, mid)
                                   THEN NoVerdict("panic")
                                   ELSE LET sa_front == split_at(sa, front_)[1]
                                            sa_mid == split_at(sa, front_)[2]
                                            ob_mid == split_at(ob, mid)[1]
                                            ob_back == split_at(ob, mid)[2]
                                        IN  IF \/ Len(sa_front) # Len(oa)
                                               \/ Len(sa_mid) # Len(ob_mid)
                                               \/ Len(sb) # Len(ob_back)
                                              THEN NoVerdict("debug")
                                              ELSE Verdict(sa_front = oa /\ sb = ob_back)

\* PartialEq<FixedVecDeque<B>> for FixedVecDeque<A>::eq on the two operands.
eq(s, o) ==
    IF s.len # o.len
      THEN Verdict(FALSE)
      ELSE LET sa == s.first  sb == s.second
               oa == o.first  ob == o.second
           IN  IF Len(sa) = Len(oa)
                 THEN Verdict(sa = oa /\ sb = ob)
                 ELSE IF Len(sa) < Len(oa)
                        THEN LET front_ == Len(sa)
                                 mid == Len(oa) - front_
                             IN  IF ~split_ok(oa, front_) \/ ~split_ok(sb, mid)
                                   THEN NoVerdict("panic")
                                   ELSE LET oa_front == split_at(oa, front_)[1]
                                            oa_mid == split_at(oa, front_)[2]
                                            sb_mid == split_at(sb, mid)[1]
                                            sb_back == split_at(sb, mid)[2]
                                        IN  IF \/ Len(sa) # Len(oa_front)
                                               \/ Len(sb_mid) # Len(oa_mid)
                                               \/ Len(sb_back) # Len(ob)
                                              THEN NoVerdict("debug")
                                              ELSE Verdict(/\ sa = oa_front
                                                           /\ sb_mid = oa_mid
                                                           /\ sb_back = ob)
                        ELSE LET front_ == Len(oa)
                                 mid == Len(sa) - front_
                             IN  IF ~split_ok(sa, front_) \/ ~split_ok(ob, mid)
                                   THEN NoVerdict("panic")
                                   ELSE LET sa_front == split_at(sa, front_)[1]
                                            sa_mid == split_at(sa, front_)[2]
                                            ob_mid == split_at(ob, mid)[1]
                                            ob_back == split_at(ob, mid)[2]
                                        IN  IF \/ Len(sa_front) # Len(oa)
                                               \/ Len(sa_mid) # Len(ob_mid)
                                               \/ Len(sb) # Len(ob_back)
                                              THEN NoVerdict("debug")
                                              ELSE Verdict(/\ sa_front = oa
                                                           /\ sa_mid = ob_mid
                                                           /\ sb = ob_back)

\* __impl_slice_eq1: a deque against a Vec, a slice or an array.
eq_slice(s, elts) ==
    IF s.len # Len(elts)
      THEN Verdict(FALSE)
      ELSE LET sa == Operand(s).first
               sb == Operand(s).second
           IN  IF ~split_ok(elts, Len(sa))
                 THEN NoVerdict("panic")
                 ELSE Verdict(sa = split_at(elts, Len(sa))[1] /\ sb = split_at(elts, Len(sa))[2])

\* ------------------------------------------------------------- actions
\* How a failed check ends the program: a panic, or (debug checks compiled
\* out) an out-of-bounds access.
Outcomes(fail) ==
    IF fail = "none" THEN {"ok"}
    ELSE IF fail = "panic" THEN {"panic"}
    ELSE {"panic", "ub"}

Call(name, r) ==
    /\ status = "ok"
    /\ op' = name
    /\ status' \in Outcomes(r.fail)
    /\ ptr' = r.ptr
    /\ len' = r.len
    /\ data' = r.data
    /\ ret' = r.ret
    /\ UNCHANGED cap

PushBack == Call("push_back", push_back(Self)) /\ UNCHANGED script

PushFront == Call("push_front", push_front(Self)) /\ UNCHANGED script

PopBack == Call("pop_back", pop_back(Self)) /\ UNCHANGED script

PopFront == Call("pop_front", pop_front(Self)) /\ UNCHANGED script

\* `*r = v` for the reference r the last call returned.
Assign(v) ==
    /\ ret # None
    /\ Call("assign", [assign(Returns(ptr, len, data, ret), v) EXCEPT !.ret = None])
    /\ UNCHANGED script

Remove(index) == Call("remove", remove(Self, index)) /\ UNCHANGED script

SwapRemoveBack(index) ==
    Call("swap_remove_back", swap_remove_back(Self, index)) /\ UNCHANGED script

SwapRemoveFront(index) ==
    Call("swap_remove_front", swap_remove_front(Self, index)) /\ UNCHANGED script

Retain(f) == Call("retain", retain(Self, f)) /\ UNCHANGED script

Truncate(n) == Call("truncate", truncate(Self, n)) /\ UNCHANGED script

Clear == Call("clear", clear(Self)) /\ UNCHANGED script

Resize(new_len, value) ==
    Call("resize", resize(Self, new_len, value)) /\ UNCHANGED script

Swap(i, j) == Call("swap", swap(Self, i, j)) /\ UNCHANGED script

GetMut(index) == Call("get_mut", get_mut(Self, index)) /\ UNCHANGED script

IndexMut(index) == Call("index_mut", index_mut(Self, index)) /\ UNCHANGED script

\* The slices borrow the deque: the call leaves it as it is.
AsSlices ==
    Call("as_slices", IF as_slices(Self).fail = "none"
                        THEN Returns(ptr, len, data, None)
                        ELSE Fails(Self, "panic"))
    /\ UNCHANGED script

AsMutSlices ==
    Call("as_mut_slices", IF as_mut_slices(Self).fail = "none"
                            THEN Returns(ptr, len, data, None)
                            ELSE Fails(Self, "panic"))
    /\ UNCHANGED script

\* The iterator borrows the deque: the call leaves it as it is.
Iter == Call("iter", Returns(ptr, len, data, None)) /\ UNCHANGED script

IterMut == Call("iter_mut", Returns(ptr, len, data, None)) /\ UNCHANGED script

\* The reference, the slices or the iterator the last call returned borrow
\* the deque (`&mut self` / `&self` in the signatures, the result bound to
\* that lifetime): the borrow checker admits no call of another method
\* before the borrow ends.
Borrowed ==
    \/ ret # None
    \/ op \in {"as_slices", "as_mut_slices", "iter", "iter_mut"}

\* The borrow ends: the program lets go of what the last call returned.
Release ==
    /\ status = "ok"
    /\ Borrowed
    /\ op' = "release"
    /\ ret' = None
    /\ UNCHANGED <<cap, ptr, len, data, status>>
    /\ UNCHANGED script

\* FixedVecDeque::new()
Init ==
    /\ cap \in 0..MaxCap
    /\ ptr = 0
    /\ len = 0
    /\ data = [k \in Slots |-> Default]
    /\ status = "ok"
    /\ op = "new"
    /\ ret = None
    /\ pushed = <<>>
    /\ popped = <<>>
    /\ mode = "none"
    /\ phase = "free"
    /\ other = NoOther

\* A method is called on the deque only while nothing borrows it; a
\* reference a call returned is written through, or let go of.
Next ==
    \/ ~Borrowed /\ PushBack
    \/ ~Borrowed /\ PushFront
    \/ ~Borrowed /\ PopBack
    \/ ~Borrowed /\ PopFront
    \/ \E v \in Values : Assign(v)
    \/ ~Borrowed /\ \E index \in 0..cap : Remove(index)
    \/ ~Borrowed /\ \E index \in 0..cap : SwapRemoveBack(index)
    \/ ~Borrowed /\ \E index \in 0..cap : SwapRemoveFront(index)
    \/ ~Borrowed /\ \E f \in [Values -> BOOLEAN] : Retain(f)
    \/ ~Borrowed /\ \E n \in 0..cap : Truncate(n)
    \/ ~Borrowed /\ Clear
    \/ ~Borrowed /\ \E new_len \in 0..(cap + 1), value \in Values : Resize(new_len, value)
    \/ ~Borrowed /\ \E i \in 0..cap, j \in 0..cap : Swap(i, j)
    \/ ~Borrowed /\ \E index \in 0..cap : GetMut(index)
    \/ ~Borrowed /\ \E index \in 0..cap : IndexMut(index)
    \/ ~Borrowed /\ AsSlices
    \/ ~Borrowed /\ AsMutSlices
    \/ ~Borrowed /\ Iter
    \/ ~Borrowed /\ IterMut
    \/ Release

Spec == Init /\ [][Next]_vars

\* ------------------------------------------------- the scripted tests
\* The unit tests' script: an empty deque with the head at any offset
\* (tests set tester.ptr = tail_pos; tester.len = 0), filled from one end
\* with the values 1, 2, 3, ..., then drained by pop_front or hit by one
\* remove.
TestInit ==
    /\ cap \in TestSizes
    /\ ptr \in (IF cap = 0 THEN {0} ELSE Slots)
    /\ len = 0
    /\ data = [k \in Slots |-> Default]
    /\ status = "ok"
    /\ op = "new"
    /\ ret = None
    /\ pushed = <<>>
    /\ popped = <<>>
    /\ mode \in {"back", "front"}
    /\ phase = "fill"
    /\ other = NoOther

\* `*buf.push_back() = i`
TestPushBack ==
    /\ phase = "fill"
    /\ mode = "back"
    /\ Len(pushed) < cap + ExtraPush
    /\ Call("push_back", assign(push_back(Self), Len(pushed) + 1))
    /\ pushed' = Append(pushed, Len(pushed) + 1)
    /\ UNCHANGED <<popped, mode, phase, other>>

\* `*buf.push_front() = i`
TestPushFront ==
    /\ phase = "fill"
    /\ mode = "front"
    /\ Len(pushed) < cap + ExtraPush
    /\ Call("push_front", assign(push_front(Self), Len(pushed) + 1))
    /\ pushed' = Append(pushed, Len(pushed) + 1)
    /\ UNCHANGED <<popped, mode, phase, other>>

\* pop_front, until it has returned None once
TestPopFront ==
    /\ phase \in {"fill", "drain"}
    /\ IF popped = <<>> THEN TRUE ELSE popped[Len(popped)] # None
    /\ LET r == pop_front(Self)
       IN /\ Call("pop_front", r)
          /\ popped' = Append(popped, IF r.ret = None THEN None ELSE r.data[r.ret])
    /\ phase' = "drain"
    /\ UNCHANGED <<pushed, mode, other>>

\* `tester.remove(to_remove)`
TestRemove(index) ==
    /\ phase = "fill"
    /\ Call("remove", remove(Self, index))
    /\ phase' = "removed"
    /\ UNCHANGED <<pushed, popped, mode, other>>

TestNext ==
    \/ TestPushBack
    \/ TestPushFront
    \/ TestPopFront
    \/ \E index \in 0..cap : TestRemove(index)

TestSpec == TestInit /\ [][TestNext]_vars

\* ------------------------------------------------ the mixed script
\* MixSpec: a new deque is filled with the values 1, 2, 3, ..., each pushed
\* at either end, and then hit by one remove. `pushed` lists the end and
\* the value of every push.
MixPushBack ==
    /\ phase = "fill"
    /\ Len(pushed) < cap + ExtraPush
    /\ Call("push_back", assign(push_back(Self), Len(pushed) + 1))
    /\ pushed' = Append(pushed, <<"back", Len(pushed) + 1>>)
    /\ UNCHANGED <<popped, mode, phase, other>>

MixPushFront ==
    /\ phase = "fill"
    /\ Len(pushed) < cap + ExtraPush
    /\ Call("push_front", assign(push_front(Self), Len(pushed) + 1))
    /\ pushed' = Append(pushed, <<"front", Len(pushed) + 1>>)
    /\ UNCHANGED <<popped, mode, phase, other>>

MixRemove(index) ==
    /\ phase = "fill"
    /\ Call("remove", remove(Self, index))
    /\ phase' = "removed"
    /\ UNCHANGED <<pushed, popped, mode, other>>

MixInit ==
    /\ cap \in 0..MaxCap
    /\ ptr = 0
    /\ len = 0
    /\ data = [k \in Slots |-> Default]
    /\ status = "ok"
    /\ op = "new"
    /\ ret = None
    /\ pushed = <<>>
    /\ popped = <<>>
    /\ mode = "mixed"
    /\ phase = "fill"
    /\ other = NoOther

MixNext ==
    \/ MixPushBack
    \/ MixPushFront
    \/ \E index \in 0..cap : MixRemove(index)

MixSpec == MixInit /\ [][MixNext]_vars

\* ------------------------------------------- one call on any deque
\* RefSpec runs the deque from new(), with a capacity of at least 1, next to
\* a reference bounded deque kept in `other`: a sequence that every call
\* updates the way its documentation says, with what the call dropped or
\* returned. A push is the call together with the assignment of the value.
Reference(q, dropped, out) ==
    [kind |-> "reference", seq |-> q, dropped |-> dropped, out |-> out]

RefPushBack(v) ==
    /\ other.kind = "reference"
    /\ Call("push_back", assign(push_back(Self), v))
    /\ other' = IF Len(other.seq) = cap
                  THEN Reference(Append(Tail(other.seq), v), "front", None)
                  ELSE Reference(Append(other.seq, v), "none", None)
    /\ UNCHANGED <<pushed, popped, mode, phase>>

RefPushFront(v) ==
    /\ other.kind = "reference"
    /\ Call("push_front", assign(push_front(Self), v))
    /\ other' = IF Len(other.seq) = cap
                  THEN Reference(<<v>> \o SubSeq(other.seq, 1, Len(other.seq) - 1),
                                 "back", None)
                  ELSE Reference(<<v>> \o other.seq, "none", None)
    /\ UNCHANGED <<pushed, popped, mode, phase>>

RefPopBack ==
    /\ other.kind = "reference"
    /\ Call("pop_back", pop_back(Self))
    /\ other' = IF other.seq = <<>>
                  THEN Reference(<<>>, "none", None)
                  ELSE Reference(SubSeq(other.seq, 1, Len(other.seq) - 1), "none",
                                 other.seq[Len(other.seq)])
    /\ UNCHANGED <<pushed, popped, mode, phase>>

RefPopFront ==
    /\ other.kind = "reference"
    /\ Call("pop_front", pop_front(Self))
    /\ other' = IF other.seq = <<>>
                  THEN Reference(<<>>, "none", None)
                  ELSE Reference(Tail(other.seq), "none", Head(other.seq))
    /\ UNCHANGED <<pushed, popped, mode, phase>>

RefInit ==
    /\ cap \in 1..MaxCap
    /\ ptr = 0
    /\ len = 0
    /\ data = [k \in Slots |-> Default]
    /\ status = "ok"
    /\ op = "new"
    /\ ret = None
    /\ pushed = <<>>
    /\ popped = <<>>
    /\ mode = "none"
    /\ phase = "reference"
    /\ other = Reference(<<>>, "none", None)

RefNext ==
    \/ \E v \in Values : RefPushBack(v)
    \/ \E v \in Values : RefPushFront(v)
    \/ RefPopBack
    \/ RefPopFront

RefSpec == RefInit /\ [][RefNext]_vars

\* PureSpec starts from any deque a program can have built (any head, any
\* length, any content of the storage), and applies the methods that read
\* or rebuild a deque as a whole: in phase "compare" the deque stands next
\* to any right-hand side of ==, in phase "pure" it is extended, collected
\* anew or cloned.
Bits == {Default, Default + 1}

SeqsUpTo(S, n) == UNION {[1..k -> S] : k \in 0..n}

\* The two slices as_slices() can hand out for another deque, of whatever
\* capacity: the first is empty only if the deque is.
OtherSlices ==
    {[kind |-> "slices", first |-> a, second |-> b] :
        a \in SeqsUpTo(Bits, PureCap), b \in SeqsUpTo(Bits, PureCap - 1)}

OtherOperand(o) ==
    IF o.kind = "deque"
      THEN Operand(o)
      ELSE [len |-> Len(o.first) + Len(o.second), first |-> o.first, second |-> o.second]

\* The logical sequence of the other container.
OtherLogical(o) == IF o.kind = "deque" THEN Logical(o) ELSE o.first \o o.second

\* A failed debug_assert_eq! panics in a debug build and is absent from a
\* release build.
EqOutcomes(fail) ==
    IF fail = "none" THEN {"ok"}
    ELSE IF fail = "panic" THEN {"panic"}
    ELSE {"panic", "ok"}

Compare(name, v) ==
    /\ status = "ok"
    /\ other.kind \in {"slices", "deque"}
    /\ op' = name
    /\ status' \in EqOutcomes(v.fail)
    /\ ret' = None
    /\ UNCHANGED <<cap, ptr, len, data>>

\* self == other
Eq == Compare("eq", eq(Operand(Self), OtherOperand(other))) /\ UNCHANGED script

\* self == other[..], the other a Vec, a slice or an array
EqSlice ==
    Compare("eq_slice", eq_slice(Self, OtherLogical(other))) /\ UNCHANGED script

\* What the items of storage d can read as once the allocations of the
\* slots in freed were released through the other copy: those items dangle.
Dangling(d, freed) ==
    {e \in [Slots -> Bits] : \A k \in Slots \ freed : e[k] = d[k]}

\* What dropping the items in the slots drops of the deque does to its clone.
OtherAfterDrop(drops) ==
    IF other.kind # "deque"
      THEN other' = other
      ELSE \E e \in Dangling(other.data, drops \cap other.shared) :
               other' = [other EXCEPT !.data = e, !.shared = @ \ drops]

\* What a call on the deque does to the script of PureSpec: after a clone,
\* one call on either copy.
Later ==
    /\ phase \in {"pure", "cloned"}
    /\ phase' = (IF phase = "cloned" THEN "changed" ELSE phase)
    /\ UNCHANGED <<pushed, popped, mode>>

Extend(elts) ==
    /\ Later
    /\ Call("extend", extend(Self, elts))
    /\ OtherAfterDrop(extend_drops(Self, elts))

\* deq = elts.into_iter().collect(): the previous deque is dropped, and
\* with it every item of its storage.
FromIter(elts) ==
    /\ Later
    /\ Call("from_iter", from_iter(elts))
    /\ OtherAfterDrop(Slots)

\* let other = deq.clone()
Clone ==
    /\ phase = "pure"
    /\ Call("clone", Returns(ptr, len, data, None))
    /\ \E sh \in clone_shared(Self) :
           other' = [kind |-> "deque", shared |-> sh] @@ clone(Self)
    /\ phase' = "cloned"
    /\ UNCHANGED <<pushed, popped, mode>>

\* A call on the clone that drops the clone's items in the slots drops.
OnOther(name, r, drops) ==
    /\ status = "ok"
    /\ phase = "cloned"
    /\ op' = name
    /\ status' \in Outcomes(r.fail)
    /\ other' = [kind |-> "deque", shared |-> other.shared \ drops] @@ After(r)
    /\ ret' = r.ret
    /\ phase' = "changed"
    /\ data' \in Dangling(data, drops \cap other.shared)
    /\ UNCHANGED <<cap, ptr, len>>

\* other.extend(elts)
OtherExtend(elts) ==
    /\ OnOther("other.extend", extend(other, elts), extend_drops(other, elts))
    /\ UNCHANGED <<pushed, popped, mode>>

\* other.pop_front(): the item stays in the storage.
OtherPopFront ==
    /\ OnOther("other.pop_front", pop_front(other), {})
    /\ UNCHANGED <<pushed, popped, mode>>

PureInit ==
    /\ cap \in 0..PureCap
    /\ ptr \in (IF cap = 0 THEN {0} ELSE Slots)
    /\ len \in 0..cap
    /\ data \in [Slots -> Bits]
    /\ status = "ok"
    /\ op = "any"
    /\ ret = None
    /\ pushed = <<>>
    /\ popped = <<>>
    /\ mode = "none"
    /\ \/ /\ phase = "pure"
          /\ other = NoOther
       \/ /\ phase = "compare"
          /\ other \in {o \in OtherSlices :
                          /\ Len(o.first) + Len(o.second) <= PureCap
                          /\ o.first = <<>> => o.second = <<>>}

PureNext ==
    \/ Eq
    \/ EqSlice
    \/ \E elts \in SeqsUpTo(Bits, cap + 1) : Extend(elts)
    \/ \E elts \in SeqsUpTo(Bits, cap + 1) : FromIter(elts)
    \/ Clone
    \/ \E elts \in SeqsUpTo(Bits, cap + 1) : OtherExtend(elts)
    \/ OtherPopFront

PureSpec == PureInit /\ [][PureNext]_vars

\* PairSpec starts from any deque of capacity 1 or more a program can have
\* built and calls push_back and then, at once, pop_back; `other` keeps the
\* deque as it was before the pair, and the slot push_back handed out.
PairPushBack ==
    /\ phase = "before"
    /\ Call("push_back", push_back(Self))
    /\ other' = [kind |-> "before", slot |-> None] @@ Self
    /\ phase' = "pushed"
    /\ UNCHANGED <<pushed, popped, mode>>

PairPopBack ==
    /\ phase = "pushed"
    /\ Call("pop_back", pop_back(Self))
    /\ other' = [other EXCEPT !.slot = ret]
    /\ phase' = "popped"
    /\ UNCHANGED <<pushed, popped, mode>>

PairInit ==
    /\ cap \in 1..PureCap
    /\ ptr \in Slots
    /\ len \in 0..cap
    /\ data \in [Slots -> Bits]
    /\ status = "ok"
    /\ op = "any"
    /\ ret = None
    /\ pushed = <<>>
    /\ popped = <<>>
    /\ mode = "none"
    /\ phase = "before"
    /\ other = NoOther

PairNext ==
    \/ PairPushBack
    \/ PairPopBack

PairSpec == PairInit /\ [][PairNext]_vars

\* ============================================================ claims
\* The sequence q with its element at 0-based index i taken out.
RemoveAt(q, i) == [k \in 1..(Len(q) - 1) |-> IF k <= i THEN q[k] ELSE q[k + 1]]

\* The sequence q back to front.
Reverse(q) == [k \in 1..Len(q) |-> q[Len(q) + 1 - k]]

\* The last n elements of q.
LastN(q, n) == [k \in 1..n |-> q[Len(q) - n + k]]

\* C1: for every capacity >= 1, every rotation of the head and every length
\* 1..Capacity (a full buffer included), remove(i) with i < len returns the
\* value e_i and leaves [e_0..e_(i-1), e_(i+1)..e_(n-1)] as the logical
\* sequence.
C1_RemoveAtEveryLength ==
    [][\A i \in 0..cap :
          (TestRemove(i) /\ cap >= 1 /\ len >= 1 /\ i < len)
             => /\ status' = "ok"
                /\ ret' # None
                /\ data'[ret'] = get(Self, i)
                /\ Logical(Self)' = RemoveAt(Logical(Self), i)]_vars

\* C2: on a buffer that is not full before the call (1 <= n <= Capacity - 1
\* elements, the head at any offset), remove(i) with i < n leaves the
\* original sequence with element i deleted, the others in their order.
C2_RemoveNotFull ==
    [][\A i \in 0..cap :
          (TestRemove(i) /\ len >= 1 /\ len <= cap - 1 /\ i < len)
             => /\ status' = "ok"
                /\ Logical(Self)' = RemoveAt(Logical(Self), i)]_vars

\* C2's case: 15 of 16 slots were filled by push_back, one element went, and
\* the 14 left wrap around the end of the storage.
C2_Witness ==
    /\ phase = "removed"
    /\ op = "remove"
    /\ ret # None
    /\ mode = "back"
    /\ cap = 16
    /\ Len(pushed) = 15
    /\ len = 14
    /\ tail(Self) > ptr

\* C3: from an empty deque of any capacity, after n <= Capacity push_back
\* calls each assigned a value, len() = n, front() and get(0) are the first
\* pushed value, back() and get(len - 1) the last.
C3_PushBackUpToCapacity ==
    (mode = "back" /\ phase = "fill" /\ Len(pushed) <= cap)
       => /\ status = "ok"
          /\ len = Len(pushed)
          /\ Len(pushed) >= 1 =>
                /\ front(Self) = pushed[1]
                /\ get(Self, 0) = pushed[1]
                /\ back(Self) = pushed[Len(pushed)]
                /\ get(Self, len - 1) = pushed[Len(pushed)]

\* C3's case: a capacity that is no power of two, filled to the brim from a
\* head in the middle of the storage, so that the elements wrap.
C3_Witness ==
    /\ mode = "back"
    /\ phase = "fill"
    /\ cap = 5
    /\ Len(pushed) = 5
    /\ ptr = 3
    /\ front(Self) = 1
    /\ back(Self) = 5

\* C4: after n > Capacity push_back calls each assigned a value, len() =
\* Capacity, is_full() holds and the logical sequence is the last Capacity
\* pushed values in push order.
C4_PushBackBeyondCapacity ==
    (mode = "back" /\ phase = "fill" /\ Len(pushed) > cap)
       => /\ status = "ok"
          /\ len = cap
          /\ is_full(Self)
          /\ Logical(Self) = LastN(pushed, cap)

\* C5: push_front on a deque that is not full adds one to len, keeps the
\* head and returns the slot of the new logical index 0; on a full deque it
\* keeps len, moves the head one step back modulo Capacity, drops the back
\* element and returns the slot of the new logical index 0; the surviving
\* elements move from index i to index i + 1.
C5_PushFront ==
    [][PushFront =>
         /\ status' = "ok"
         /\ ret' = ptr_index(Self, 0)'
         /\ IF len < cap
              THEN /\ len' = len + 1
                   /\ ptr' = ptr
                   /\ \A i \in 0..(len - 1) : get(Self, i + 1)' = get(Self, i)
              ELSE /\ len' = len
                   /\ ptr' = (ptr - 1) % cap
                   /\ \A i \in 0..(len - 2) : get(Self, i + 1)' = get(Self, i)]_vars

\* C6: for every capacity c of TestSizes and every initial head, after c
\* push_back calls the pop_front calls return the values in push order,
\* after c push_front calls in reverse push order, and the pop_front after
\* the c-th returns None.
C6_FillThenDrain ==
    (phase = "drain" /\ Len(pushed) = cap)
       => /\ status = "ok"
          /\ Len(popped) <= cap + 1
          /\ \A k \in 1..Len(popped) :
                popped[k] = IF k > cap THEN None
                            ELSE IF mode = "back" THEN pushed[k]
                            ELSE Reverse(pushed)[k]

\* C6's case: capacity 16 filled by 16 push_front calls and drained by 17
\* pop_front calls, the last of which found nothing.
C6_Witness ==
    /\ phase = "drain"
    /\ mode = "front"
    /\ cap = 16
    /\ ptr = 7
    /\ Len(pushed) = 16
    /\ Len(popped) = 17
    /\ popped[1] = 16
    /\ popped[16] = 1
    /\ popped[17] = None

\* C7: on a deque that is not empty pop_front returns the value at logical
\* index 0 and keeps the head, pop_back returns the value at logical index
\* len - 1 and moves the head back by one modulo Capacity; each takes one
\* from len and leaves the other elements in order. On an empty deque both
\* return None and leave head and len alone.
C7_Pop ==
    [][/\ PopFront =>
            /\ status' = "ok"
            /\ IF len = 0
                 THEN ret' = None /\ ptr' = ptr /\ len' = len
                 ELSE /\ ret' # None
                      /\ data'[ret'] = get(Self, 0)
                      /\ len' = len - 1
                      /\ ptr' = ptr
                      /\ Logical(Self)' = Tail(Logical(Self))
       /\ PopBack =>
            /\ status' = "ok"
            /\ IF len = 0
                 THEN ret' = None /\ ptr' = ptr /\ len' = len
                 ELSE /\ ret' # None
                      /\ data'[ret'] = get(Self, len - 1)
                      /\ len' = len - 1
                      /\ ptr' = (ptr - 1) % cap
                      /\ Logical(Self)' = SubSeq(Logical(Self), 1, len - 1)]_vars

\* C7's case: pop_back on a deque whose head was at offset 0 took the value
\* of the last slot and left the head there.
C7_Witness ==
    /\ op = "pop_back"
    /\ status = "ok"
    /\ ret # None
    /\ cap >= 2
    /\ ptr = cap - 1
    /\ ret = ptr
    /\ len >= 1
    /\ data[ret] # Default

\* C8: with Capacity = 0 the deque is empty and full in every reachable
\* state and no operation fails: each is a no-op or returns None.
C8_ZeroCapacity ==
    cap = 0 => /\ status = "ok"
               /\ len = 0
               /\ is_empty(Self)
               /\ is_full(Self)

\* C9: for Capacity >= 1, after any sequence of public operations from
\* new(), 0 <= len <= Capacity, 0 <= head < Capacity and the derived
\* tail = (head - len) mod Capacity is in [0, Capacity).
C9_IndexBounds ==
    cap >= 1 => /\ 0 <= len /\ len <= cap
                /\ 0 <= ptr /\ ptr < cap
                /\ 0 <= tail(Self) /\ tail(Self) < cap
                /\ tail(Self) = (ptr - len) % cap

\* C9's case: a remove has moved the head of a deque whose elements wrap
\* around the end of the storage.
C9_Witness ==
    /\ op = "remove"
    /\ status = "ok"
    /\ ret # None
    /\ ret = ptr + 1
    /\ len >= 2
    /\ tail(Self) > ptr
    /\ ptr >= 1

\* C10: pop_front, pop_back, truncate and clear leave the contents of every
\* physical slot as they are: only head and len change.
C10_StorageKept ==
    [][(PopFront \/ PopBack \/ Clear \/ \E n \in 0..cap : Truncate(n))
          => /\ data' = data
             /\ cap' = cap]_vars

\* C10's case: the last element was popped and its value is still in the
\* slot the call returned.
C10_Witness ==
    /\ op \in {"pop_front", "pop_back"}
    /\ status = "ok"
    /\ len = 0
    /\ ret # None
    /\ data[ret] # Default

\* C11: clear() sets head = 0 and len = 0 from any state without writing
\* to the storage, and the first push_back after it returns physical slot 0
\* with the content the slot had before the clear.
C11_ClearThenPushBack ==
    [][/\ Clear => /\ status' = "ok"
                   /\ ptr' = 0
                   /\ len' = 0
                   /\ data' = data
       /\ (PushBack /\ op = "clear") => /\ status' = "ok"
                                        /\ ret' = 0
                                        /\ data' = data]_vars

\* C12: swap_remove_back(index) with index < len returns the value that
\* was at logical index, takes exactly one off len, leaves the former last
\* element at logical index (when index was not the last) and every other
\* remaining element at its logical index; with index >= len it returns
\* nothing and changes nothing.
C12_SwapRemoveBack ==
    [][op' = "swap_remove_back" =>
       \A index \in 0..cap : SwapRemoveBack(index) =>
             /\ status' = "ok"
             /\ IF index < len
                  THEN /\ ret' # None
                       /\ data'[ret'] = get(Self, index)
                       /\ len' = len - 1
                       /\ \A k \in 0..(len - 2) :
                             get(Self', k) = IF k = index THEN get(Self, len - 1)
                                             ELSE get(Self, k)
                  ELSE /\ ret' = None
                       /\ UNCHANGED <<ptr, len, data>>]_vars

\* C12's case: a swap_remove_back handed out the former back slot and left
\* at least two elements, one of them with another value than the removed
\* one.
C12_Witness ==
    /\ op = "swap_remove_back"
    /\ status = "ok"
    /\ ret # None
    /\ len >= 2
    /\ ret = ptr
    /\ \E k \in 0..(len - 1) : get(Self, k) # data[ret]

\* C13: swap_remove_front(index) with index < len returns the value that
\* was at logical index and takes one off len; the former first element is
\* then in the physical slot of the removed one, at logical index - 1 (when
\* index # 0), and every other remaining element keeps its place relative
\* to the others; with index >= len it returns nothing and changes nothing.
C13_SwapRemoveFront ==
    [][op' = "swap_remove_front" =>
       \A index \in 0..cap : SwapRemoveFront(index) =>
             /\ status' = "ok"
             /\ IF index < len
                  THEN /\ ret' # None
                       /\ data'[ret'] = get(Self, index)
                       /\ len' = len - 1
                       /\ index # 0 => /\ get(Self', index - 1) = get(Self, 0)
                                       /\ ptr_index(Self', index - 1) = ptr_index(Self, index)
                       /\ \A k \in 0..(len - 2) :
                             k # index - 1 => get(Self', k) = get(Self, k + 1)
                  ELSE /\ ret' = None
                       /\ UNCHANGED <<ptr, len, data>>]_vars

\* C13's case: the front slot was handed out by a swap_remove_front that
\* left at least two elements, one of them with another value than the
\* removed one.
C13_Witness ==
    /\ op = "swap_remove_front"
    /\ status = "ok"
    /\ ret # None
    /\ len >= 2
    /\ wrap_add(ret, 1) = tail(Self)
    /\ \E k \in 0..(len - 1) : get(Self, k) # data[ret]

\* C14: in every reachable state, full or partial and with any head, the
\* two slices of as_slices() put one after the other are the logical
\* sequence get(0), ..., get(len - 1), and as_mut_slices() covers the same
\* two ranges of the storage.
C14_Slices ==
    LET a == as_slices(Self)
        m == as_mut_slices(Self)
        both == a.first \o a.second
    IN  /\ a.fail = "none"
        /\ m.fail = "none"
        /\ [k \in 1..Len(both) |-> data[both[k]]] = Logical(Self)
        /\ m.first = a.first
        /\ m.second = a.second

\* C14's case: the slices were taken of a partly filled deque whose
\* elements wrap around the end of the storage, with different values on
\* the two sides.
C14_Witness ==
    /\ op \in {"as_slices", "as_mut_slices"}
    /\ status = "ok"
    /\ len < cap
    /\ as_slices(Self).first # <<>>
    /\ as_slices(Self).second # <<>>
    /\ data[as_slices(Self).first[1]] # data[as_slices(Self).second[1]]

\* C15: get(index) and get_mut(index) return nothing exactly when
\* index >= len; otherwise they return the slot at the physical offset
\* (tail + index) mod Capacity, index 0 being the front; the call changes
\* neither head nor len nor the storage.
C15_Get ==
    [][op' = "get_mut" =>
       \A index \in 0..cap : GetMut(index) =>
             /\ status' = "ok"
             /\ UNCHANGED <<ptr, len, data>>
             /\ IF index >= len
                  THEN /\ ret' = None
                       /\ get(Self, index) = None
                  ELSE /\ ret' = (((ptr - len) % cap) + index) % cap
                       /\ get(Self, index) = data[ret']
                       /\ get(Self, index) # None
                       /\ index = 0 => get(Self, index) = front(Self)]_vars

\* C15's case: get_mut returned an element other than the front of a deque
\* whose elements wrap around the end of the storage.
C15_Witness ==
    /\ op = "get_mut"
    /\ status = "ok"
    /\ ret # None
    /\ ret < tail(Self)
    /\ 0 < len
    /\ len < cap

\* C16: deq[index], shared or mutable, panics exactly when index >= len
\* and otherwise returns the element get(index) returns.
C16_Index ==
    [][op' = "index_mut" =>
       \A index \in 0..cap : IndexMut(index) =>
             /\ UNCHANGED <<ptr, len, data>>
             /\ status' = (IF index >= len THEN "panic" ELSE "ok")
             /\ Index_index(Self, index).fail = (IF index >= len THEN "panic" ELSE "none")
             /\ index < len => /\ ret' = get_mut(Self, index).ret
                               /\ Index_index(Self, index).ret = ret'
                               /\ data[ret'] = get(Self, index)]_vars

\* C16's case: a deque that is neither empty nor full was indexed at or
\* beyond len, and the program panicked.
C16_Witness ==
    /\ op = "index_mut"
    /\ status = "panic"
    /\ len >= 1
    /\ len < cap

\* C17: swap(i, j) panics whenever i >= len or j >= len, and then no slot
\* of the storage is modified.
C17_SwapPanics ==
    [][\A i \in 0..cap, j \in 0..cap :
          (Swap(i, j) /\ (i >= len \/ j >= len)) =>
              /\ status' = "panic"
              /\ data' = data]_vars

\* C18: truncate(new_len) with new_len < len keeps the first new_len
\* logical elements in their order, sets head to
\* (head - (len - new_len)) mod Capacity and len to new_len, and leaves the
\* tail where it was; with new_len >= len it changes nothing.
C18_Truncate ==
    [][op' = "truncate" =>
       \A n \in 0..cap : Truncate(n) =>
             /\ status' = "ok"
             /\ IF n < len
                  THEN /\ Logical(Self)' = SubSeq(Logical(Self), 1, n)
                       /\ ptr' = (ptr - (len - n)) % cap
                       /\ len' = n
                       /\ tail(Self)' = tail(Self)
                  ELSE UNCHANGED <<ptr, len, data>>]_vars

\* C18's case: a truncate left a deque that is not empty and whose elements
\* wrap around the end of the storage.
C18_Witness ==
    /\ op = "truncate"
    /\ status = "ok"
    /\ len >= 1
    /\ len < cap
    /\ tail(Self) > ptr
    /\ \E k \in 0..(len - 1) : get(Self, k) # Default

C20_ResizeUpToCapacity ==
    [][op' = "resize" =>
       \A new_len \in 0..(cap + 1), value \in Values :
             (Resize(new_len, value) /\ new_len <= cap) =>
                 /\ status' = "ok"
                 /\ len' = new_len
                 /\ \A k \in 0..(new_len - 1) :
                       get(Self, k)' = IF k < len THEN get(Self, k) ELSE value]_vars

C22_Equality ==
    other.kind \in {"slices", "deque"} =>
        LET a == Operand(Self)
            b == OtherOperand(other)
            same == Logical(Self) = OtherLogical(other)
        IN  /\ eq(a, b).fail = "none"
            /\ eq(b, a).fail = "none"
            /\ eq(a, b).val <=> same
            /\ eq(b, a).val <=> same
            /\ eq_slice(Self, OtherLogical(other)).fail = "none"
            /\ eq_slice(Self, OtherLogical(other)).val <=> same

\* C22's case: two equal deques were compared whose slices are split at
\* different places, each with elements in both slices.
C22_Witness ==
    /\ op = "eq"
    /\ status = "ok"
    /\ other.kind = "slices"
    /\ Logical(Self) = OtherLogical(other)
    /\ Operand(Self).second # <<>>
    /\ other.second # <<>>
    /\ Len(Operand(Self).first) # Len(other.first)
    /\ \E k \in 1..(len - 1) : get(Self, k) # get(Self, 0)

\* C23: in every reachable state iter() and iter_mut() yield len elements
\* and then end, the k-th of them the element at logical index k, as get(k)
\* returns it; the deque is not changed, so that a new iter() yields the
\* same again.
C23_Iter ==
    [][(op' \in {"iter", "iter_mut"} /\ (Iter \/ IterMut)) =>
          LET slots == [k \in 1..len |-> (((ptr - len) % cap) + (k - 1)) % cap]
          IN  /\ status' = "ok"
              /\ collect(iter(Self)) = slots
              /\ collect(iter_mut(Self)) = slots
              /\ Iter_next(exhaust(iter(Self))).item = None
              /\ \A k \in 1..len : data[slots[k]] = get(Self, k - 1)
              /\ UNCHANGED <<cap, ptr, len, data>>
              /\ collect(iter(Deque(ptr', len', data'))) = slots]_vars

\* C23's case: an iterator was taken of a deque whose elements wrap around
\* the end of the storage and differ in value.
C23_Witness ==
    /\ op \in {"iter", "iter_mut"}
    /\ status = "ok"
    /\ len >= 2
    /\ tail(Self) > ptr
    /\ ptr >= 1
    /\ get(Self, 0) # get(Self, len - 1)

\* The pushes of C24's scenario and the sequence each of them is to leave.
Scenario ==
    <<<<"back", 1>>, <<"back", 2>>, <<"back", 3>>, <<"front", 4>>, <<"back", 5>>>>

ScenarioLeaves == <<<<1>>, <<1, 2>>, <<1, 2, 3>>, <<4, 1, 2, 3>>, <<1, 2, 3, 5>>>>

\* C24: on a new deque of capacity 4, push_back 1, 2, 3 gives [1, 2, 3],
\* push_front 4 gives [4, 1, 2, 3], push_back 5 evicts the front 4 and gives
\* [1, 2, 3, 5], and remove(1) then returns 2 and leaves [1, 3, 5] with
\* len = 3.
C24_Scenario ==
    [][cap = 4 =>
          /\ \A k \in 1..Len(Scenario) :
                (phase' = "fill" /\ pushed' = SubSeq(Scenario, 1, k)) =>
                    /\ status' = "ok"
                    /\ Logical(Deque(ptr', len', data')) = ScenarioLeaves[k]
          /\ (pushed = Scenario /\ MixRemove(1)) =>
                    /\ status' = "ok"
                    /\ ret' # None
                    /\ data'[ret'] = 2
                    /\ Logical(Deque(ptr', len', data')) = <<1, 3, 5>>
                    /\ len' = 3]_vars

\* C24's case: the scenario was played to its end, and the removed 2 is in
\* the slot the remove returned.
C24_Witness ==
    /\ cap = 4
    /\ pushed = Scenario
    /\ phase = "removed"
    /\ status = "ok"
    /\ len = 3
    /\ ret # None
    /\ data[ret] = 2

\* C25: on an empty deque, with any head and of any capacity, push_front
\* followed at once by pop_front is a round trip: len is 0 again, the head
\* is the one before the push, and pop_front returns the slot push_front
\* returned.
C25_PushFrontPopFront ==
    [][/\ (TestPushFront /\ pushed = <<>>) =>
              /\ status' = "ok"
              /\ ret' # None
              /\ ptr' = ptr
       /\ (TestPopFront /\ pushed = <<1>> /\ mode = "front" /\ popped = <<>>) =>
              /\ status' = "ok"
              /\ len' = 0
              /\ ptr' = ptr
              /\ ret' = ret]_vars

\* The deque after `*push_back() = e` for each e of elts, the last one last.
RECURSIVE PushEach(_, _)
PushEach(s, elts) ==
    IF elts = <<>>
      THEN s
      ELSE After(assign(push_back(PushEach(s, SubSeq(elts, 1, Len(elts) - 1))),
                        elts[Len(elts)]))

\* C26: extend(seq) and from_iter(seq) do what one push_back per element of
\* seq, with the element assigned to the returned slot, does; for a seq
\* longer than Capacity the result is full and holds the last Capacity
\* elements of seq in their order.
C26_Extend ==
    [][op' \in {"extend", "from_iter"} =>
       \A elts \in SeqsUpTo(Bits, cap + 1) :
          /\ Extend(elts) =>
                /\ status' = "ok"
                /\ Deque(ptr', len', data') = PushEach(Self, elts)
                /\ Len(elts) > cap =>
                      /\ len' = cap
                      /\ Logical(Deque(ptr', len', data')) = LastN(elts, cap)
          /\ FromIter(elts) =>
                /\ status' = "ok"
                /\ Deque(ptr', len', data') = PushEach(new, elts)
                /\ Len(elts) > cap =>
                      /\ len' = cap
                      /\ Logical(Deque(ptr', len', data')) = LastN(elts, cap)]_vars

\* C27: remove(index) returns nothing when Capacity = 0 or index >= len,
\* an empty deque included, and then head, len and every slot of the
\* storage are as they were.
C27_RemoveAbsent ==
    [][op' = "remove" =>
       \A index \in 0..cap :
          (Remove(index) /\ (cap = 0 \/ index >= len)) =>
              /\ status' = "ok"
              /\ ret' = None
              /\ UNCHANGED <<ptr, len, data>>]_vars

\* C27's case: a remove returned nothing on a deque that holds elements
\* wrapping around the end of the storage.
C27_Witness ==
    /\ op = "remove"
    /\ status = "ok"
    /\ ret = None
    /\ len >= 1
    /\ tail(Self) > ptr
    /\ \E k \in 0..(len - 1) : get(Self, k) # Default

\* C28: clone() of a deque in any state gives a deque with the same head,
\* len and storage contents, which compares equal to the original; a later
\* call on either of the two leaves the other one as it is.
C28_Clone ==
    [][/\ Clone =>
             /\ status' = "ok"
             /\ UNCHANGED <<cap, ptr, len, data>>
             /\ other'.ptr = ptr
             /\ other'.len = len
             /\ other'.data = data
             /\ eq(Operand(Self), OtherOperand(other')).val
             /\ eq(OtherOperand(other'), Operand(Self)).val
       /\ (phase = "cloned" /\ op' \in {"extend", "from_iter"}) =>
             After(other') = After(other)
       /\ op' \in {"other.extend", "other.pop_front"} =>
             UNCHANGED <<cap, ptr, len, data>>]_vars

\* C29: for any interleaving of push_back(v), push_front(v), pop_back and
\* pop_front from new() with Capacity >= 1, the logical sequence equals that
\* of the reference bounded deque (push_back on a full deque first drops the
\* front, push_front on a full deque first drops the back, a pop on an
\* empty deque returns absent, any other pop the element it takes off), and
\* logical element i is stored at physical offset (tail + i) mod Capacity,
\* tail being len slots behind the head.
C29_Refinement ==
    other.kind = "reference" =>
        /\ status = "ok"
        /\ len = Len(other.seq)
        /\ Logical(Self) = other.seq
        /\ \A i \in 0..(len - 1) :
               data[(((ptr + cap - len) % cap) + i) % cap] = other.seq[i + 1]
        /\ op \in {"pop_back", "pop_front"} =>
               IF other.out = None THEN ret = None
               ELSE ret # None /\ data[ret] = other.out

\* C29's case: a push_front on a full deque of capacity 3 or more whose
\* elements wrap around the end of the storage and are not all the same; the
\* reference dropped its back.
C29_Witness ==
    /\ other.kind = "reference"
    /\ op = "push_front"
    /\ other.dropped = "back"
    /\ cap >= 3
    /\ len = cap
    /\ ptr # 0
    /\ \E i \in 1..len : other.seq[i] # other.seq[1]

Relocated(before_, after_, index) ==
    {k \in (0..(before_.len - 1)) \ {index} :
        ptr_index(after_, IF k < index THEN k ELSE k - 1) # ptr_index(before_, k)}

\* C31: remove(index) with index < len relocates the minimum run: the
\* number of surviving elements whose physical slot changes is at most
\* min(index, len - 1 - index), in every wrap configuration.
C31_MinimumRun ==
    [][op' = "remove" =>
       \A i \in 0..cap :
          (TestRemove(i) /\ i < len) =>
              /\ status' = "ok"
              /\ Cardinality(Relocated(Self, Deque(ptr', len', data'), i))
                     <= (IF i <= len - 1 - i THEN i ELSE len - 1 - i)]_vars

C33_RemovedSlot ==
    [][op' = "remove" =>
       \A i \in 0..cap :
          (TestRemove(i) /\ i < len) =>
              /\ status' = "ok"
              /\ ret' # None
              /\ data'[ret'] = get(Self, i)
              /\ \A k \in 0..(len' - 1) :
                     (((ptr' + cap - len') % cap) + k) % cap # ret']_vars

\* How often each value occurs in the slots of storage d.
SlotBag(d) == [v \in Values |-> Cardinality({k \in DOMAIN d : d[k] = v})]

\* C34: remove, swap, swap_remove_back, swap_remove_front and retain only
\* permute storage: after each of them the multiset of the values held in
\* the Capacity physical slots equals the multiset before the call; no
\* stored value, a stale one outside the logical range included, is lost
\* and none is duplicated.
C34_StoragePermuted ==
    [][(/\ op' \in {"remove", "swap", "swap_remove_back", "swap_remove_front", "retain"}
        /\ status' = "ok")
           => SlotBag(data') = SlotBag(data)]_vars

\* C35: in every reachable state with Capacity >= 1 and for every
\* index < len, each block copy issued by remove stays inside the storage
\* (dst + len <= Capacity and src + len <= Capacity), and the offsets passed
\* to buffer_read and buffer_write are < Capacity, so that the debug
\* assertions in copy, buffer_read and buffer_write never fire.
C35_CopiesInside ==
    (status = "ok" /\ cap >= 1) =>
        \A index \in 0..(len - 1) :
            LET plan == remove_plan(Self, index)
            IN  /\ ptr_index(Self, index) < cap
                /\ plan.idx < cap
                /\ \A k \in 1..Len(plan.copies) :
                       /\ plan.copies[k].dst + plan.copies[k].n <= cap
                       /\ plan.copies[k].src + plan.copies[k].n <= cap
                /\ remove(Self, index).fail = "none"

\* C35's case: a remove returned on a deque of capacity 16 and left four or
\* more elements that wrap around the end of the storage, two or more of
\* them at its start.
C35_Witness ==
    /\ phase = "removed"
    /\ op = "remove"
    /\ status = "ok"
    /\ ret # None
    /\ cap = 16
    /\ len >= 4
    /\ tail(Self) > ptr
    /\ ptr >= 2

\* C36: on non-negative machine integers, for Capacity >= 1, no subtraction
\* underflows in any reachable state: wrap_sub(idx, s) with
\* 0 <= idx < Capacity and 0 <= s <= Capacity returns a value in
\* [0, Capacity) equal to (idx - s) mod Capacity, and inside remove the
\* expressions head - idx - 1, head - 1, Capacity - idx - 1,
\* Capacity - tail - 1 (the lengths of the block copies) and ptr -= 1 (the
\* head the branch leaves) are all evaluated with a non-negative result.
C36_NoUnderflow ==
    (status = "ok" /\ cap >= 1) =>
        /\ \A idx \in Slots, s \in 0..cap :
               /\ wrap_sub_ok(idx, s)
               /\ wrap_sub(idx, s) \in Slots
               /\ wrap_sub(idx, s) = (idx + cap - s) % cap
        /\ \A index \in 0..(len - 1) :
               LET plan == remove_plan(Self, index)
               IN  /\ \A k \in 1..Len(plan.copies) : plan.copies[k].n >= 0
                   /\ plan.ptr >= 0
                   /\ len - index >= 1

\* C36's case: a remove returned whose branch took the head from offset 0
\* to the last slot of a storage of 8 or 16 slots: there was no head section
\* to move.
C36_Witness ==
    /\ phase = "removed"
    /\ op = "remove"
    /\ status = "ok"
    /\ ret = 0
    /\ cap \in {8, 16}
    /\ ptr = cap - 1
    /\ len >= 1
    /\ len <= cap - 3

\* C37: on any state that is not full (len < Capacity, Capacity >= 1),
\* push_back followed at once by pop_back restores the previous head and
\* len, and pop_back returns the physical slot push_back returned; on a full
\* state the pair is not a round trip: len ends at Capacity - 1 and the
\* former front element is no longer in the logical sequence, which is the
\* former one without its front.
C37_PushBackPopBack ==
    phase = "popped" =>
        /\ status = "ok"
        /\ IF other.len < cap
             THEN /\ ptr = other.ptr
                  /\ len = other.len
                  /\ ret # None
                  /\ ret = other.slot
             ELSE /\ len = cap - 1
                  /\ Logical(Self) = Tail(Logical(other))
                  /\ \A k \in 0..(len - 1) :
                         (((ptr + cap - len) % cap) + k) % cap
                             # (other.ptr + cap - other.len) % cap

\* C37's case: the pair was called on a deque of one element or more, not
\* full, whose head was the last slot of the storage, so that push_back
\* took the head around to offset 0 and pop_back took it back.
C37_Witness ==
    /\ phase = "popped"
    /\ status = "ok"
    /\ cap >= 3
    /\ other.len >= 1
    /\ other.len < cap
    /\ other.ptr = cap - 1
    /\ ptr = cap - 1

====
